---- MODULE Spec2Model ----
(***************************************************************************)
(* KU-Polls: the poll views of polls/views.py (index listing, detail      *)
(* view, vote handler) over a store of Question, Choice and Vote rows.    *)
(* Question.can_vote lives in polls/models.py; it is modelled from the    *)
(* specification and the model tests of polls/tests.py.                   *)
(***************************************************************************)
EXTENDS Integers, Sequences, FiniteSets, TLC

VARIABLES
    now,         \* timezone.now(), in whole time units
    questions,   \* Question rows: question id -> [pub_date, end_date]
    votes,       \* Vote rows: set of [id, user, choice]
    nextVoteId,  \* next primary key the store hands to Vote.objects.create
    last,        \* the most recent request and the response it got
    listing,     \* latest_question_list of the most recent index request
    reqs         \* in-flight vote requests of the concurrent workers

vars == <<now, questions, votes, nextVoteId, last, listing, reqs>>

-----------------------------------------------------------------------------
(* Bounds *)

MaxTime == 2
MaxVotes == 2

(* Program constants *)

DisplayLimit == 5

-----------------------------------------------------------------------------
(* Fixed data of the store *)

Users == {"u1", "u2"}
AnonymousUser == "anonymous"

QuestionIds == {1, 2}
MissingQuestion == 0

\* Choice rows: Choice.question is a foreign key fixed at creation.
Choices == {[id |-> 1, question |-> 1], [id |-> 2, question |-> 1],
            [id |-> 3, question |-> 2], [id |-> 4, question |-> 2]}
ChoiceIds == {c.id : c \in Choices}
NoChoice == 0

NoEnd == -1

Times == 0..MaxTime
Windows == [pub_date : Times, end_date : Times \cup {NoEnd}]

ChoiceQuestion(c) == (CHOOSE x \in Choices : x.id = c).question

\* question.choice_set
choice_set(qid) == {c.id : c \in {x \in Choices : x.question = qid}}

-----------------------------------------------------------------------------
(* Question.can_vote *)

can_vote_StrictPublish(q, t) ==
    /\ q.pub_date < t
    /\ (q.end_date = NoEnd \/ t <= q.end_date)

can_vote(q, t) ==
    /\ q.pub_date <= t
    /\ (q.end_date = NoEnd \/ t <= q.end_date)

-----------------------------------------------------------------------------
(* Python's matching of a raised exception against an except clause: every *)
(* entry of the clause's tuple must be an exception class, otherwise the   *)
(* match itself raises TypeError.                                          *)

ExcClass(n) == [isClass |-> TRUE, name |-> n]

\* `not question.can_vote`: the negation of a bound method, i.e. False.
NotBoundMethod == [isClass |-> FALSE, name |-> "False"]

ExceptMatch(raised, clause) ==
    IF \E i \in 1..Len(clause) : ~clause[i].isClass
    THEN "TypeError"
    ELSE IF \E i \in 1..Len(clause) : clause[i].name = raised
         THEN "caught"
         ELSE "pass"

\* The first try block of vote(): what question.choice_set.get(pk=POST['choice'])
\* raises, and where the except clauses send it.
SelectChoice(qid, posted) ==
    LET raised == IF posted = NoChoice THEN "KeyError"
                  ELSE IF posted \notin choice_set(qid) THEN "DoesNotExist"
                  ELSE "none"
        m1 == ExceptMatch(raised, <<ExcClass("KeyError"), NotBoundMethod>>)
        m2 == ExceptMatch(raised, <<ExcClass("KeyError"), ExcClass("DoesNotExist")>>)
    IN  IF raised = "none" THEN "selected"
        ELSE IF m1 = "TypeError" THEN "server_error"
        ELSE IF m1 = "caught" THEN "not_pending_form"
        ELSE IF m2 = "caught" THEN "no_choice_form"
        ELSE "server_error"

-----------------------------------------------------------------------------
(* The second try block of vote() *)

NoVote == [id |-> 0, user |-> AnonymousUser, choice |-> NoChoice]

\* Vote.objects.get(user=user, choice=selected_choice)
GetVote(vs, u, c) ==
    LET found == {v \in vs : v.user = u /\ v.choice = c}
    IN  IF found = {} THEN [status |-> "DoesNotExist", vote |-> NoVote]
        ELSE IF Cardinality(found) = 1
             THEN [status |-> "found", vote |-> CHOOSE v \in found : TRUE]
             ELSE [status |-> "MultipleObjectsReturned", vote |-> NoVote]

\* vote.save() of a row that has a primary key: UPDATE ... WHERE id = pk
SaveVote(vs, v) == {w \in vs : w.id # v.id} \cup {v}

WriteVote_AlwaysCreate(vs, nid, u, c, got) ==
    IF got.status = "MultipleObjectsReturned"
    THEN [votes |-> vs, nextVoteId |-> nid,
          response |-> "server_error", message |-> "none"]
    ELSE [votes |-> SaveVote(vs, [id |-> nid, user |-> u, choice |-> c]),
          nextVoteId |-> nid + 1,
          response |-> "results_redirect",
          message |-> IF got.status = "DoesNotExist" THEN "recorded" ELSE "changed"]

\* except Vote.DoesNotExist: create / else: re-point; then vote.save()
WriteVote(vs, nid, u, c, got) ==
    IF got.status = "MultipleObjectsReturned"
    THEN [votes |-> vs, nextVoteId |-> nid,
          response |-> "server_error", message |-> "none"]
    ELSE IF got.status = "DoesNotExist"
    THEN [votes |-> SaveVote(vs \cup {[id |-> nid, user |-> u, choice |-> c]},
                             [id |-> nid, user |-> u, choice |-> c]),
          nextVoteId |-> nid + 1,
          response |-> "results_redirect", message |-> "recorded"]
    ELSE [votes |-> SaveVote(vs, [got.vote EXCEPT !.choice = c]),
          nextVoteId |-> nid,
          response |-> "results_redirect", message |-> "changed"]

Unwritten(vs, nid, resp) ==
    [votes |-> vs, nextVoteId |-> nid, response |-> resp, message |-> "none"]

\* vote() up to the end of its first try block: @login_required,
\* get_object_or_404, then the choice look-up.
RequestStage(qs, u, qid, posted) ==
    IF u = AnonymousUser THEN "login_redirect"
    ELSE IF qid \notin DOMAIN qs THEN "not_found"
    ELSE SelectChoice(qid, posted)

\* vote(request, question_id), start to finish
VoteHandler(vs, nid, qs, u, qid, posted) ==
    IF RequestStage(qs, u, qid, posted) # "selected"
    THEN Unwritten(vs, nid, RequestStage(qs, u, qid, posted))
    ELSE WriteVote(vs, nid, u, posted, GetVote(vs, u, posted))

\* The choices of question qid that user u holds a Vote for.
PriorChoices(vs, u, qid) ==
    {v.choice : v \in {w \in vs : w.user = u /\ ChoiceQuestion(w.choice) = qid}}

-----------------------------------------------------------------------------
(* The record of the most recent request *)

NoRequest ==
    [op |-> "none", user |-> AnonymousUser, question |-> MissingQuestion,
     choice |-> NoChoice, at |-> 0, response |-> "none", message |-> "none",
     wrote |-> FALSE, repeat |-> FALSE, prior |-> {}]

InitStore ==
    /\ now = 0
    /\ votes = {}
    /\ nextVoteId = 1
    /\ last = NoRequest
    /\ listing = <<>>
    /\ reqs = <<>>

\* Two questions in the manner of tests.py's create_question: question 1 is
\* published one time unit from now and never closes, question 2 is published
\* now and closes one time unit from now.
Fixture == (1 :> [pub_date |-> 1, end_date |-> NoEnd]) @@
           (2 :> [pub_date |-> 0, end_date |-> 1])

Init ==
    /\ InitStore
    /\ questions = Fixture

Tick ==
    /\ now < MaxTime
    /\ now' = now + 1
    /\ UNCHANGED <<questions, votes, nextVoteId, last, listing, reqs>>

Vote(u, qid, posted) ==
    LET r == VoteHandler(votes, nextVoteId, questions, u, qid, posted)
    IN  /\ r.nextVoteId <= MaxVotes + 1
        /\ votes' = r.votes
        /\ nextVoteId' = r.nextVoteId
        /\ last' = [op |-> "vote", user |-> u, question |-> qid,
                    choice |-> posted, at |-> now,
                    response |-> r.response, message |-> r.message,
                    wrote |-> (r.votes # votes),
                    repeat |-> /\ last.op = "vote"
                               /\ last.response = "results_redirect"
                               /\ last.user = u
                               /\ last.question = qid
                               /\ last.choice = posted,
                    prior |-> IF qid \in DOMAIN questions
                              THEN PriorChoices(votes, u, qid) ELSE {}]
        /\ UNCHANGED <<now, questions, listing, reqs>>

\* DetailView.get behind LoginRequiredMixin.dispatch
DetailResponse(qs, t, u, qid) ==
    IF u = AnonymousUser THEN "login_redirect"
    ELSE IF qid \notin DOMAIN qs THEN "not_found"
    ELSE IF ~can_vote(qs[qid], t) THEN "index_redirect"
    ELSE "detail_page"

DetailGet(u, qid) ==
    /\ last' = [NoRequest EXCEPT
                  !.op = "detail", !.user = u, !.question = qid, !.at = now,
                  !.response = DetailResponse(questions, now, u, qid),
                  !.message = IF DetailResponse(questions, now, u, qid) = "index_redirect"
                              THEN "voting_not_allowed" ELSE "none"]
    /\ UNCHANGED <<now, questions, votes, nextVoteId, listing, reqs>>

Next ==
    \/ Tick
    \/ \E u \in Users \cup {AnonymousUser},
          qid \in QuestionIds \cup {MissingQuestion},
          posted \in ChoiceIds \cup {NoChoice} : Vote(u, qid, posted)
    \/ \E u \in Users \cup {AnonymousUser},
          qid \in QuestionIds \cup {MissingQuestion} : DetailGet(u, qid)

Spec == Init /\ [][Next]_vars

-----------------------------------------------------------------------------
(* Browsing only: the detail view over every publish/end window *)

InitBrowse ==
    /\ InitStore
    /\ questions \in [QuestionIds -> Windows]

NextBrowse ==
    \/ Tick
    \/ \E u \in Users \cup {AnonymousUser},
          qid \in QuestionIds \cup {MissingQuestion} : DetailGet(u, qid)

SpecBrowse == InitBrowse /\ [][NextBrowse]_vars

-----------------------------------------------------------------------------
(* The index view *)

\* One question more than the index displays.
IndexQuestionIds == 1..(DisplayLimit + 1)

Min(a, b) == IF a <= b THEN a ELSE b

Published_Strict(qs, t) == {q \in DOMAIN qs : qs[q].pub_date < t}

\* Question.objects.filter(pub_date__lte=timezone.now())
Published(qs, t) == {q \in DOMAIN qs : qs[q].pub_date <= t}

\* .order_by('-pub_date'): every order of S with pub_date descending; rows
\* with equal pub_date come in whatever order the database returns them.
RECURSIVE OrderByPubDateDesc(_, _)
OrderByPubDateDesc(qs, S) ==
    IF S = {} THEN {<<>>}
    ELSE LET latest == {q \in S : \A r \in S : qs[r].pub_date <= qs[q].pub_date}
         IN  UNION {{<<q>> \o rest : rest \in OrderByPubDateDesc(qs, S \ {q})}
                    : q \in latest}

\* [:5]
Slice(s, n) == SubSeq(s, 1, Min(n, Len(s)))

\* IndexView.get_queryset
IndexQueryset(qs, t) ==
    {Slice(s, DisplayLimit) : s \in OrderByPubDateDesc(qs, Published(qs, t))}

IndexGet ==
    /\ listing' \in IndexQueryset(questions, now)
    /\ last' = [NoRequest EXCEPT !.op = "index", !.at = now,
                                 !.response = "index_page"]
    /\ UNCHANGED <<now, questions, votes, nextVoteId, reqs>>

\* A question that is not published within the time modelled, as tests.py's
\* create_question(days=30).
FutureQuestion ==
    (DisplayLimit + 2) :> [pub_date |-> MaxTime + 1, end_date |-> NoEnd]

InitIndex ==
    /\ InitStore
    /\ \E qs \in [IndexQuestionIds -> [pub_date : Times, end_date : {NoEnd}]] :
          questions = qs @@ FutureQuestion

NextIndex ==
    \/ Tick
    \/ IndexGet

SpecIndex == InitIndex /\ [][NextIndex]_vars

-----------------------------------------------------------------------------
(* Two vote requests served concurrently: each worker runs vote() in two   *)
(* database steps, the look-up of the existing Vote and the write.         *)

Workers == {"w1", "w2"}

IdleReq == [phase |-> "idle", user |-> AnonymousUser,
            question |-> MissingQuestion, choice |-> NoChoice,
            got |-> [status |-> "none", vote |-> NoVote], response |-> "none"]

\* Lines 54-74: resolve the question and the choice, then Vote.objects.get
ConcLookup(w, u, qid, posted) ==
    LET stage == RequestStage(questions, u, qid, posted)
        got == GetVote(votes, u, posted)
    IN  /\ reqs[w].phase = "idle"
        /\ reqs' = [reqs EXCEPT ![w] =
              IF stage # "selected"
              THEN [IdleReq EXCEPT !.phase = "done", !.user = u, !.question = qid,
                                   !.choice = posted, !.response = stage]
              ELSE IF got.status = "MultipleObjectsReturned"
              THEN [IdleReq EXCEPT !.phase = "done", !.user = u, !.question = qid,
                                   !.choice = posted, !.got = got,
                                   !.response = "server_error"]
              ELSE [IdleReq EXCEPT !.phase = "looked", !.user = u, !.question = qid,
                                   !.choice = posted, !.got = got]]
        /\ UNCHANGED <<now, questions, votes, nextVoteId, last, listing>>

\* Lines 76-85: create or re-point, save, redirect
ConcWrite(w) ==
    LET q == reqs[w]
        r == WriteVote(votes, nextVoteId, q.user, q.choice, q.got)
    IN  /\ q.phase = "looked"
        /\ r.nextVoteId <= MaxVotes + 1
        /\ votes' = r.votes
        /\ nextVoteId' = r.nextVoteId
        /\ reqs' = [reqs EXCEPT ![w] = [q EXCEPT !.phase = "done",
                                                 !.response = r.response]]
        /\ UNCHANGED <<now, questions, last, listing>>

InitConc ==
    /\ now = 1
    /\ questions = Fixture
    /\ votes = {}
    /\ nextVoteId = 1
    /\ last = NoRequest
    /\ listing = <<>>
    /\ reqs = [w \in Workers |-> IdleReq]

NextConc ==
    \/ \E w \in Workers, u \in Users, qid \in QuestionIds,
          posted \in ChoiceIds \cup {NoChoice} : ConcLookup(w, u, qid, posted)
    \/ \E w \in Workers : ConcWrite(w)

SpecConc == InitConc /\ [][NextConc]_vars

-----------------------------------------------------------------------------
(* Properties *)

VotesOf(u, qid) ==
    {v \in votes : v.user = u /\ ChoiceQuestion(v.choice) = qid}

\* The window test the specification states for a question q at time t.
NotVotable(q, t) ==
    t < q.pub_date \/ (q.end_date # NoEnd /\ t > q.end_date)

\* The last request was a vote by a logged-in user for an existing question.
LastIsVote ==
    /\ last.op = "vote"
    /\ last.user \in Users
    /\ last.question \in DOMAIN questions

LastVoteSucceeded == LastIsVote /\ last.response = "results_redirect"

\* C1: after any sequence of vote requests, every (user, question) pair has
\* at most one Vote of that user whose choice belongs to that question.
C1_AtMostOneVotePerUserQuestion ==
    \A u \in Users, qid \in QuestionIds : Cardinality(VotesOf(u, qid)) <= 1

\* C2: a vote request for a question that is not votable at the time of the
\* request is answered with the "not pending" form and writes no Vote,
\* whichever choice of the question is submitted.
C2_ClosedQuestionRejectsVote ==
    (/\ LastIsVote
     /\ last.choice \in choice_set(last.question)
     /\ NotVotable(questions[last.question], last.at))
        => (last.response = "not_pending_form" /\ ~last.wrote)

\* C3: when a user holding a Vote for choice A submits a valid vote for a
\* different choice B of the same question, exactly one Vote of that user
\* exists for the question afterwards, and it points to B.
C3_ChangeLeavesOneVote ==
    (LastVoteSucceeded /\ last.prior # {} /\ last.choice \notin last.prior)
        => /\ Cardinality(VotesOf(last.user, last.question)) = 1
           /\ \A v \in VotesOf(last.user, last.question) : v.choice = last.choice

\* C4: a user submitting the same valid choice twice in a row leaves the set
\* of stored Votes after the second request equal to the set after the first.
C4_RepeatVoteIdempotent ==
    (LastIsVote /\ last.repeat) => ~last.wrote

C4_Witness ==
    /\ LastVoteSucceeded
    /\ last.repeat
    /\ \E v \in votes : v.user = last.user /\ v.choice = last.choice

\* C5: once two concurrent vote requests of the same user for the same
\* question have both finished, at most one Vote exists for that pair,
\* whatever the interleaving of their look-up and write steps.
C5_ConcurrentAtMostOneVote ==
    (/\ DOMAIN reqs = Workers
     /\ \A w \in Workers : reqs[w].phase = "done"
     /\ \A w1, w2 \in Workers : /\ reqs[w1].user = reqs[w2].user
                                /\ reqs[w1].question = reqs[w2].question)
        => \A w \in Workers :
              Cardinality(VotesOf(reqs[w].user, reqs[w].question)) <= 1

\* C6: a vote request whose choice id is absent, or names a choice that does
\* not belong to the question, re-shows the form with "You didn't select a
\* choice." and writes no Vote.
C6_InvalidChoiceReshowsForm ==
    (LastIsVote /\ last.choice \notin choice_set(last.question))
        => (last.response = "no_choice_form" /\ ~last.wrote)

\* C7: the outcome of a successful vote request classifies the user's prior
\* state for the question: "recorded" exactly when the user had no Vote for
\* it, "unchanged" exactly when the existing Vote is for the submitted
\* choice, "changed" exactly when it is for a different choice.
C7_OutcomeClassifiesPriorState ==
    LastVoteSucceeded
        => /\ (last.message = "recorded") <=> (last.prior = {})
           /\ (last.message = "unchanged") <=> (last.choice \in last.prior)
           /\ (last.message = "changed")
                 <=> (last.prior # {} /\ last.choice \notin last.prior)

\* C8: every GET of the detail view of a question whose publish time is in
\* the future, by a logged-in or an anonymous requester, is answered with a
\* redirect to the poll index.
C8_FutureDetailRedirectsToIndex ==
    (/\ last.op = "detail"
     /\ last.question \in DOMAIN questions
     /\ questions[last.question].pub_date > last.at)
        => last.response = "index_redirect"

\* C9: the index listing holds only questions with publish time <= now, is
\* ordered by publish time descending, and is exactly the first five of that
\* ordering (all of them when fewer than five qualify).
C9_IndexListsLatestFivePublished ==
    last.op = "index" =>
        LET t == last.at
            n == Len(listing)
            shown == {listing[i] : i \in 1..n}
            qualifying == {q \in DOMAIN questions : questions[q].pub_date <= t}
        IN  /\ shown \subseteq qualifying
            /\ Cardinality(shown) = n
            /\ \A i, j \in 1..n :
                  i < j => questions[listing[i]].pub_date >= questions[listing[j]].pub_date
            /\ n = Min(DisplayLimit, Cardinality(qualifying))
            /\ \A q \in qualifying \ shown, i \in 1..n :
                  questions[q].pub_date <= questions[listing[i]].pub_date

C9_Witness ==
    /\ last.op = "index"
    /\ Len(listing) = DisplayLimit
    /\ \E q \in DOMAIN questions : questions[q].pub_date > last.at
    /\ \E q \in DOMAIN questions :
          /\ questions[q].pub_date <= last.at
          /\ \A i \in 1..Len(listing) : listing[i] # q
    /\ \E i, j \in 1..Len(listing) :
          questions[listing[i]].pub_date > questions[listing[j]].pub_date

\* C10: can_vote is false when now is before the publish time or when an end
\* time is set and now is after it, and true otherwise (now equal to the
\* publish time included; no end time means no upper bound).
C10_CanVoteIsTheWindow ==
    \A qid \in DOMAIN questions :
        can_vote(questions[qid], now) <=> ~NotVotable(questions[qid], now)

C10_Witness ==
    /\ \E qid \in DOMAIN questions :
          /\ questions[qid].pub_date = now
          /\ questions[qid].end_date = NoEnd
          /\ can_vote(questions[qid], now)
    /\ \E qid \in DOMAIN questions :
          /\ questions[qid].pub_date < now
          /\ questions[qid].end_date # NoEnd
          /\ questions[qid].end_date < now
          /\ ~can_vote(questions[qid], now)

====
